---- MODULE Spec2Model ----
(***************************************************************************)
(* A model of the web-weaver graph viewer (src/tools/graph-viewer):        *)
(* loader.py (load_graph and the three filters), main.py (the pipeline)    *)
(* and the row-writing part of renderer.py.                                *)
(*                                                                         *)
(* A graph is a networkx DiGraph.  Graph objects live in a heap and are    *)
(* named by references, so that "returns a copy" and "returns the same     *)
(* object" are different things in the model, as they are in Python.       *)
(***************************************************************************)
EXTENDS Integers, Sequences, FiniteSets, TLC

VARIABLES
    heap,       \* the live DiGraph objects: reference -> graph value
    cur,        \* the reference the caller holds as its current graph (G)
    call,       \* the last filter call: operation, arguments, outcome
    pc,         \* main.py / load_graph / render_cosmograph_csv: where control is
    args,       \* the parsed command line (argparse.Namespace)
    status,     \* the process's exit status, None while it runs
    trace,      \* the stages of main started so far, in order
    conn,       \* load_graph's connection: "none", "open" or "closed"
    closes,     \* number of conn.close() calls
    schema_info,\* what _detect_database_schema returned
    node_rows,  \* what _load_nodes_from_database returned
    edge_rows,  \* what _load_edges_from_database returned
    exc,        \* the exception in flight inside load_graph's try block
    files       \* the output directory: nodes.csv and edges.csv

graphVars == <<heap, cur, call>>
loadVars  == <<conn, closes, schema_info, node_rows, edge_rows, exc>>
mainVars  == <<pc, args, status, trace, files>>
vars      == <<heap, cur, call, pc, args, status, trace, conn, closes,
               schema_info, node_rows, edge_rows, exc, files>>

(***************************************************************************)
(* Bounds of the model.                                                    *)
(***************************************************************************)
MaxEdges     == 2    \* edges of an input graph of the filter specification
MaxDepth     == 2    \* hop depths tried by extract_subgraph
MaxThreshold == 2    \* weight thresholds tried are -1..MaxThreshold

NodeIds    == {1, 2, 3}
Weights    == {1, 5}
Thresholds == (0 - 1)..MaxThreshold
Depths     == 1..MaxDepth
Domains    == {"a.com", "b.com", "c.com", "B.com"}
RootDomains == {"b.com", "B.com"}
Refs       == {1, 2}

\* Python's None where the code uses it as "no node" / "no value" among
\* integers; it is no node identifier, weight or count of the model.
None == 0 - 99

Range(s) == {s[i] : i \in DOMAIN s}

Min(S) == CHOOSE x \in S : \A y \in S : x <= y

(***************************************************************************)
(* Python dicts (attribute dictionaries) are functions from keys.          *)
(***************************************************************************)
EmptyDict == [k \in {} |-> 0]

\* d.get(k, default)
Get(d, k, default) == IF k \in DOMAIN d THEN d[k] ELSE default

(***************************************************************************)
(* networkx.DiGraph.  nodes: the node identifiers in iteration (insertion) *)
(* order; attr: node -> attribute dict; edges: (u, v) -> attribute dict.   *)
(***************************************************************************)
EmptyGraph == [nodes |-> <<>>, attr |-> EmptyDict, edges |-> EmptyDict]

NodeSet(g) == Range(g.nodes)
EdgeSet(g) == DOMAIN g.edges

number_of_nodes(g) == Len(g.nodes)
number_of_edges(g) == Cardinality(DOMAIN g.edges)

successors(g, n)   == {e[2] : e \in {d \in DOMAIN g.edges : d[1] = n}}
predecessors(g, n) == {e[1] : e \in {d \in DOMAIN g.edges : d[2] = n}}

\* DiGraph.degree: in-degree plus out-degree (a self-loop counts twice)
degree(g, n) ==
    Cardinality({e \in DOMAIN g.edges : e[1] = n})
        + Cardinality({e \in DOMAIN g.edges : e[2] = n})

\* nx.isolates(G): the nodes of degree 0
isolates(g) == {n \in NodeSet(g) : degree(g, n) = 0}

\* G.remove_edges_from(ebunch): edges not present are ignored
remove_edges_from(g, ebunch) ==
    [g EXCEPT !.edges = [e \in (DOMAIN g.edges) \ ebunch |-> g.edges[e]]]

\* G.remove_nodes_from(ns): the nodes go, and every edge at one of them
remove_nodes_from(g, ns) ==
    [nodes |-> SelectSeq(g.nodes, LAMBDA n : n \notin ns),
     attr  |-> [n \in NodeSet(g) \ ns |-> g.attr[n]],
     edges |-> [e \in {d \in DOMAIN g.edges : d[1] \notin ns /\ d[2] \notin ns}
                    |-> g.edges[e]]]

\* G.subgraph(ns).copy(): the subgraph induced on ns, in G's node order
subgraph_keeps_edges(g, ns) ==
    [nodes |-> SelectSeq(g.nodes, LAMBDA n : n \in ns),
     attr  |-> [n \in NodeSet(g) \cap ns |-> g.attr[n]],
     edges |-> g.edges]

subgraph(g, ns) == remove_nodes_from(g, NodeSet(g) \ ns)

(***************************************************************************)
(* The heap.  G.copy() makes a new object with the same nodes, edges and   *)
(* (copied) attribute dicts.                                               *)
(***************************************************************************)
NewRef(h) == Min(Refs \ DOMAIN h)

copy_alias(h, G) == [heap |-> h, ref |-> G]

copy(h, G) ==
    LET r == NewRef(h) IN [heap |-> h @@ (r :> h[G]), ref |-> r]

(***************************************************************************)
(* loader.py: the three filters.  Each takes the heap and the reference of *)
(* its input graph and gives the heap after the call, the reference it     *)
(* returns (None when it raises), and what it reports.                     *)
(***************************************************************************)

\* filter_by_weight, the list comprehension: the edges to remove
edges_to_remove_le(g, min_weight) ==
    {e \in DOMAIN g.edges : Get(g.edges[e], "weight", 1) <= min_weight}

edges_to_remove_gt(g, min_weight) ==
    {e \in DOMAIN g.edges : Get(g.edges[e], "weight", 1) > min_weight}

edges_to_remove(g, min_weight) ==
    {e \in DOMAIN g.edges : Get(g.edges[e], "weight", 1) < min_weight}

filter_by_weight_checked(h, G, min_weight) ==
    IF min_weight < 0
    THEN [heap |-> h, ret |-> None, raised |-> "ValueError", reported |-> None,
          root_id |-> None]
    ELSE LET c          == copy(h, G)
             G_filtered == c.ref
             h2 == [c.heap EXCEPT ![G_filtered] =
                        remove_edges_from(@, edges_to_remove(h[G], min_weight))]
         IN  [heap |-> h2, ret |-> G_filtered, raised |-> "",
              reported |-> number_of_edges(h2[G_filtered]), root_id |-> None]

filter_by_weight(h, G, min_weight) ==
    LET c          == copy(h, G)
        G_filtered == c.ref
        h2 == [c.heap EXCEPT ![G_filtered] =
                   remove_edges_from(@, edges_to_remove(h[G], min_weight))]
    IN  [heap |-> h2, ret |-> G_filtered, raised |-> "",
         reported |-> number_of_edges(h2[G_filtered]), root_id |-> None]

\* remove_isolated, first line: isolated = list(nx.isolates(G))
isolated_sinks(g) ==
    {n \in NodeSet(g) : Cardinality({e \in DOMAIN g.edges : e[1] = n}) = 0}

isolated_low(g) == {n \in NodeSet(g) : degree(g, n) <= 1}

isolated(g) == isolates(g)

remove_isolated(h, G) ==
    LET c          == copy(h, G)
        G_filtered == c.ref
        h2 == [c.heap EXCEPT ![G_filtered] = remove_nodes_from(@, isolated(h[G]))]
    IN  [heap |-> h2, ret |-> G_filtered, raised |-> "",
         reported |-> Cardinality(isolated(h[G])), root_id |-> None]

\* extract_subgraph, the root search: data.get("domain") == root_domain.
\* A node without the attribute gives None, which equals no string.
Lower(s) == IF s = "B.com" THEN "b.com" ELSE s

domain_matches_nocase(data, root_domain) ==
    "domain" \in DOMAIN data /\ Lower(data["domain"]) = Lower(root_domain)

domain_matches(data, root_domain) ==
    "domain" \in DOMAIN data /\ data["domain"] = root_domain

\* the for loop with its break: the first match in iteration order
RECURSIVE find_root_from(_, _, _)
find_root_from(g, root_domain, i) ==
    IF i > Len(g.nodes) THEN None
    ELSE IF domain_matches(g.attr[g.nodes[i]], root_domain) THEN g.nodes[i]
    ELSE find_root_from(g, root_domain, i + 1)

find_root_last(g, root_domain) ==
    LET hits == {i \in 1..Len(g.nodes) :
                    domain_matches(g.attr[g.nodes[i]], root_domain)}
    IN  IF hits = {} THEN None
        ELSE g.nodes[CHOOSE i \in hits : \A j \in hits : j <= i]

find_root(g, root_domain) == find_root_from(g, root_domain, 1)

\* for _ in range(depth): one round adds the successors and predecessors
\* of every node of the set
RECURSIVE hop_nodes_directed(_, _, _)
hop_nodes_directed(g, nodes, depth) ==
    IF depth <= 0 THEN nodes
    ELSE hop_nodes_directed(
             g, nodes \cup UNION {successors(g, n) : n \in nodes}, depth - 1)

RECURSIVE hop_nodes(_, _, _)
hop_nodes(g, nodes, depth) ==
    IF depth <= 0 THEN nodes
    ELSE LET new_nodes ==
                 UNION {successors(g, n) \cup predecessors(g, n) : n \in nodes}
         IN  hop_nodes(g, nodes \cup new_nodes, depth - 1)

extract_subgraph(h, G, root_domain, depth) ==
    LET root_id == find_root(h[G], root_domain) IN
    IF root_id = None
    THEN [heap |-> h, ret |-> None, raised |-> "ValueError", reported |-> None,
          root_id |-> None]
    ELSE LET nodes == hop_nodes(h[G], {root_id}, depth)
             r     == NewRef(h)
             h2    == h @@ (r :> subgraph(h[G], nodes))
         IN  [heap |-> h2, ret |-> r, raised |-> "",
              reported |-> number_of_nodes(h2[r]), root_id |-> root_id]

(***************************************************************************)
(* A call of a filter, as its caller sees it: G_new = op(G, ...).          *)
(***************************************************************************)
NoCall ==
    [op |-> "none", num |-> None, root_domain |-> "", in |-> None,
     out |-> None, raised |-> "", reported |-> None,
     before |-> EmptyGraph, ret |-> EmptyGraph, touched |-> FALSE,
     in_op |-> "none", root_id |-> None]

\* what the caller keeps after R = op(G): G and, when op returned, R
Keep(h, refs) == [r \in (DOMAIN h) \cap refs |-> h[r]]

\* the filter that returned the object G, "none" when G is the input graph
\* or has been changed by the caller since
MadeBy(G) ==
    IF G = call.out /\ ~call.touched THEN call.op
    ELSE IF G = call.in /\ G # call.out THEN call.in_op
    ELSE "none"

Record(G, op, num, root_domain, r) ==
    /\ heap' = Keep(r.heap, {G, r.ret})
    /\ cur'  = IF r.raised = "" THEN r.ret ELSE G
    /\ call' = [op |-> op, num |-> num,
                root_domain |-> root_domain, in |-> G, out |-> r.ret,
                raised |-> r.raised, reported |-> r.reported,
                before |-> heap[G],
                ret |-> IF r.raised = "" THEN r.heap[r.ret] ELSE EmptyGraph,
                touched |-> FALSE, in_op |-> MadeBy(G), root_id |-> r.root_id]


(***************************************************************************)
(* loader.py, load_graph.  The relational source is outside the program:   *)
(* connecting and each query either give a result or raise, and a query    *)
(* gives some rows of the bounded row sets below, in the order its         *)
(* ORDER BY states.  NULL cells are None (numbers) and NoText (text).      *)
(***************************************************************************)
MaxEdgeRows == 2    \* rows of the edges relation

NoText == "NULL"
RowIds == {1, 2}    \* node_id is the key of nodes: distinct, never NULL

DomainOf(id) == IF id = 1 THEN "a.com" ELSE IF id = 2 THEN "b.com" ELSE "c.com"

\* a row of nodes with every cell filled, and one with NULLs
FullRow(id, has_depth) ==
    IF has_depth THEN <<id, DomainOf(id), "d", 3, 2>> ELSE <<id, DomainOf(id), "d", 3>>
NullRow(id, has_depth) ==
    IF has_depth THEN <<id, DomainOf(id), NoText, None, None>>
    ELSE <<id, DomainOf(id), NoText, None>>

\* ascending sequence of a set of integers: ORDER BY node_id
RECURSIVE SortedSeq(_)
SortedSeq(S) == IF S = {} THEN <<>> ELSE <<Min(S)>> \o SortedSeq(S \ {Min(S)})

\* SELECT ... FROM nodes ORDER BY node_id: the possible results
NodeResults(has_depth) ==
    UNION {{[i \in 1..Cardinality(ids) |->
                IF full[SortedSeq(ids)[i]] THEN FullRow(SortedSeq(ids)[i], has_depth)
                ELSE NullRow(SortedSeq(ids)[i], has_depth)] :
            full \in [ids -> BOOLEAN]} : ids \in SUBSET RowIds}

EdgePairs   == {<<1, 2>>, <<2, 1>>, <<2, 3>>, <<3, 1>>, <<None, 1>>}
EdgeWeights == {None, 0, 0 - 1, 5}
EdgeRowSet  == {<<p[1], p[2], w>> : p \in EdgePairs, w \in EdgeWeights}

KeyLeq(r1, r2) == r1[1] < r2[1] \/ (r1[1] = r2[1] /\ r1[2] <= r2[2])

\* SELECT ... FROM edges ORDER BY from_node_id, to_node_id: the possible
\* results (NULL sorts first; rows of one pair come in either order)
EdgeResults ==
    UNION {{rows \in [1..n -> EdgeRowSet] :
                \A i \in 1..n : \A j \in 1..n : i < j => KeyLeq(rows[i], rows[j])} :
            n \in 0..MaxEdgeRows}

\* _safe_decode_text: None gives "", a str is returned as it is (bytes have
\* been decoded by the connection's text_factory before a row is seen)
safe_decode_text(text) == IF text = NoText THEN "" ELSE text

\* G.add_node(n, **attrs): a new node goes last; a known one is updated
add_node(g, n, attrs) ==
    IF n \in NodeSet(g) THEN [g EXCEPT !.attr[n] = attrs @@ @]
    ELSE [nodes |-> Append(g.nodes, n), attr |-> g.attr @@ (n :> attrs),
          edges |-> g.edges]

\* G.add_edge(u, v, **attrs): u and v become nodes if they are not; an
\* edge already there keeps its place and has its attributes updated
add_edge_keep_first(g, u, v, attrs) ==
    LET g1 == IF u \in NodeSet(g) THEN g ELSE add_node(g, u, EmptyDict)
        g2 == IF v \in NodeSet(g1) THEN g1 ELSE add_node(g1, v, EmptyDict)
        old == IF <<u, v>> \in DOMAIN g2.edges THEN g2.edges[<<u, v>>] ELSE EmptyDict
    IN  [g2 EXCEPT !.edges =
            [e \in (DOMAIN g2.edges) \cup {<<u, v>>} |->
                IF e = <<u, v>> THEN old @@ attrs ELSE g2.edges[e]]]

add_edge(g, u, v, attrs) ==
    LET g1 == IF u \in NodeSet(g) THEN g ELSE add_node(g, u, EmptyDict)
        g2 == IF v \in NodeSet(g1) THEN g1 ELSE add_node(g1, v, EmptyDict)
        old == IF <<u, v>> \in DOMAIN g2.edges THEN g2.edges[<<u, v>>] ELSE EmptyDict
    IN  [g2 EXCEPT !.edges =
            [e \in (DOMAIN g2.edges) \cup {<<u, v>>} |->
                IF e = <<u, v>> THEN attrs @@ old ELSE g2.edges[e]]]

\* x or 1
OrOne(x) == IF x = None \/ x = 0 THEN 1 ELSE x

\* the attributes of one node row (load_graph, lines 161-175)
node_attrs(row, has_depth) ==
    [domain      |-> safe_decode_text(row[2]),
     description |-> IF row[3] = NoText \/ row[3] = "" THEN ""
                     ELSE safe_decode_text(row[3]),
     crawl_count |-> OrOne(row[4]),
     depth       |-> IF has_depth THEN (IF row[5] # None THEN row[5] ELSE 0) ELSE 0]

\* for row in node_rows: G.add_node(...); networkx raises on node None
RECURSIVE insert_nodes(_, _, _, _)
insert_nodes(g, rows, i, has_depth) ==
    IF i > Len(rows) THEN [G |-> g, raised |-> ""]
    ELSE IF rows[i][1] = None THEN [G |-> g, raised |-> "ValueError"]
    ELSE insert_nodes(add_node(g, rows[i][1], node_attrs(rows[i], has_depth)),
                      rows, i + 1, has_depth)

\* for from_id, to_id, weight in edge_rows: G.add_edge(..., weight=weight or 1)
RECURSIVE insert_edges(_, _, _)
insert_edges(g, rows, i) ==
    IF i > Len(rows) THEN [G |-> g, raised |-> ""]
    ELSE IF rows[i][1] = None \/ rows[i][2] = None
    THEN [G |-> g, raised |-> "ValueError"]
    ELSE insert_edges(add_edge(g, rows[i][1], rows[i][2],
                               [weight |-> OrOne(rows[i][3])]), rows, i + 1)

\* where control goes when the try block is left: always through finally
LeaveTryUnlessRaised(e) == IF e = "" THEN "load_finally" ELSE "load_raised"

LeaveTry(e) == "load_finally"

NoSchema == [has_depth |-> FALSE, has_created_at |-> FALSE, has_edge_id |-> FALSE]

\* _detect_database_schema: the legacy schema (no optional column) and the
\* current one (all of them); load_graph reads has_depth only
SchemaVersions ==
    {NoSchema, [has_depth |-> TRUE, has_created_at |-> TRUE, has_edge_id |-> TRUE]}

\* conn = sqlite3.connect(db_path); text_factory; cursor
LoadConnect ==
    /\ pc = "load_connect"
    /\ \/ conn' = "open" /\ pc' = "load_schema" /\ exc' = ""
       \/ conn' = conn /\ pc' = "load_raised" /\ exc' = "sqlite3.Error"
    /\ UNCHANGED <<graphVars, args, status, trace, files, closes, schema_info,
                   node_rows, edge_rows>>

Raise(e) == exc' = e /\ pc' = LeaveTry(e)

\* G = nx.DiGraph(); schema_info = _detect_database_schema(cursor)
LoadSchema ==
    /\ pc = "load_schema"
    /\ heap' = (1 :> EmptyGraph) /\ cur' = 1
    /\ \/ /\ schema_info' \in SchemaVersions
          /\ pc' = "load_nodes_query" /\ exc' = exc
       \/ Raise("sqlite3.Error") /\ schema_info' = schema_info
    /\ UNCHANGED <<call, args, status, trace, files, conn, closes, node_rows,
                   edge_rows>>

\* node_rows = _load_nodes_from_database(cursor, schema_info)
LoadNodesQuery ==
    /\ pc = "load_nodes_query"
    /\ \/ /\ node_rows' \in NodeResults(schema_info["has_depth"])
          /\ pc' = "load_nodes_insert" /\ exc' = exc
       \/ Raise("sqlite3.Error") /\ node_rows' = node_rows
    /\ UNCHANGED <<graphVars, args, status, trace, files, conn, closes,
                   schema_info, edge_rows>>

\* the loop over node_rows
LoadNodesInsert ==
    /\ pc = "load_nodes_insert"
    /\ LET r == insert_nodes(heap[cur], node_rows, 1, schema_info["has_depth"]) IN
          /\ heap' = [heap EXCEPT ![cur] = r.G]
          /\ IF r.raised = "" THEN pc' = "load_edges_query" /\ exc' = exc
             ELSE Raise(r.raised)
    /\ UNCHANGED <<cur, call, args, status, trace, files, conn, closes,
                   schema_info, node_rows, edge_rows>>

\* edge_rows = _load_edges_from_database(cursor)
LoadEdgesQuery ==
    /\ pc = "load_edges_query"
    /\ \/ /\ edge_rows' \in EdgeResults
          /\ pc' = "load_edges_insert" /\ exc' = exc
       \/ Raise("sqlite3.Error") /\ edge_rows' = edge_rows
    /\ UNCHANGED <<graphVars, args, status, trace, files, conn, closes,
                   schema_info, node_rows>>

\* the loop over edge_rows; the try block ends after it
LoadEdgesInsert ==
    /\ pc = "load_edges_insert"
    /\ LET r == insert_edges(heap[cur], edge_rows, 1) IN
          /\ heap' = [heap EXCEPT ![cur] = r.G]
          /\ Raise(r.raised)
    /\ UNCHANGED <<cur, call, args, status, trace, files, conn, closes,
                   schema_info, node_rows, edge_rows>>

\* finally: conn.close(); then return G, or the exception goes on
LoadFinally ==
    /\ pc = "load_finally"
    /\ conn' = "closed"
    /\ closes' = closes + 1
    /\ pc' = IF exc = "" THEN "load_return" ELSE "load_raised"
    /\ UNCHANGED <<graphVars, args, status, trace, files, schema_info,
                   node_rows, edge_rows, exc>>


(***************************************************************************)
(* renderer.py: the rows render_cosmograph_csv writes.  A row keeps the    *)
(* cells copied from the graph; the computed cells (label, x, y, size,     *)
(* color, width) do not decide how many rows there are.                    *)
(***************************************************************************)
NoFile == [exists |-> FALSE, rows |-> <<>>, complete |-> FALSE]

\* export_nodes_to_csv: one row per node of G.nodes(), in iteration order
node_csv_rows_labelled(g) ==
    LET ns == SelectSeq(g.nodes, LAMBDA n : "domain" \in DOMAIN g.attr[n]) IN
    [i \in 1..Len(ns) |->
        [id          |-> ns[i],
         crawl_count |-> Get(g.attr[ns[i]], "crawl_count", 1),
         depth       |-> Get(g.attr[ns[i]], "depth", 0)]]

node_csv_rows(g) ==
    [i \in 1..Len(g.nodes) |->
        [id          |-> g.nodes[i],
         crawl_count |-> Get(g.attr[g.nodes[i]], "crawl_count", 1),
         depth       |-> Get(g.attr[g.nodes[i]], "depth", 0)]]

\* G.edges(): the out-edges of each node in node order
RECURSIVE edges_in_order(_, _)
edges_in_order(g, i) ==
    IF i > Len(g.nodes) THEN <<>>
    ELSE LET targets == SortedSeq(successors(g, g.nodes[i]))
         IN  [k \in 1..Len(targets) |-> <<g.nodes[i], targets[k]>>]
                 \o edges_in_order(g, i + 1)

\* export_edges_to_csv: one row per edge of G.edges()
edge_csv_rows(g) ==
    LET es == edges_in_order(g, 1) IN
    [i \in 1..Len(es) |->
        [source |-> es[i][1], target |-> es[i][2],
         weight |-> Get(g.edges[es[i]], "weight", 1)]]

Layouts == {"sfdp", "spring", "kamada_kawai"}

\* compute_layout: "ValueError" for a name that is no layout; sfdp needs
\* pygraphviz and raises ImportError without it
compute_layout(layout, have_pygraphviz) ==
    IF layout \notin Layouts THEN "ValueError"
    ELSE IF layout = "sfdp" /\ ~have_pygraphviz THEN "ImportError"
    ELSE ""

(***************************************************************************)
(* main.py.  A field of args is set here when main first reads it:         *)
(* argparse fixed it before, and nothing depends on it until then.         *)
(***************************************************************************)
MinWeightArgs == {None, 0 - 1, 0, 2}    \* None: --min-weight absent
DepthArgs     == {0, 2}                \* 2 is the default of --depth
RootArgs      == {"", "b.com"}         \* "": --root absent or empty
LayoutArgs    == {"sfdp", "spring"}    \* sfdp is the default of --layout

NoArgs ==
    [min_weight |-> None, depth |-> None, remove_isolated |-> FALSE,
     root |-> "", stats |-> FALSE, layout |-> ""]

Init ==
    /\ heap = EmptyDict /\ cur = None /\ call = NoCall
    /\ pc = "validate" /\ args = NoArgs /\ status = None /\ trace = <<>>
    /\ conn = "none" /\ closes = 0 /\ schema_info = NoSchema
    /\ node_rows = <<>> /\ edge_rows = <<>> /\ exc = ""
    /\ files = [nodes |-> NoFile, edges |-> NoFile]

\* sys.exit(code)
Exit(code) == pc' = "exited" /\ status' = code

\* validate_arguments(args)
MainValidate ==
    /\ pc = "validate"
    /\ trace' = Append(trace, "validate")
    /\ \E db_is_file \in BOOLEAN : \E depth \in DepthArgs :
       \E min_weight \in MinWeightArgs :
          /\ args' = [args EXCEPT !.depth = depth, !.min_weight = min_weight]
          /\ IF ~db_is_file \/ depth < 1 \/ (min_weight # None /\ min_weight < 0)
             THEN Exit(1)
             ELSE pc' = "load" /\ status' = status
    /\ UNCHANGED <<graphVars, loadVars, files>>

\* G = loader.load_graph(args.db): the call
MainLoad ==
    /\ pc = "load"
    /\ trace' = Append(trace, "load")
    /\ pc' = "load_connect"
    /\ UNCHANGED <<graphVars, loadVars, args, status, files>>

\* except Exception as e: print; sys.exit(1)
MainLoadRaised ==
    /\ pc = "load_raised"
    /\ Exit(1)
    /\ UNCHANGED <<graphVars, loadVars, args, trace, files>>

\* load_graph returned; if G.number_of_nodes() == 0: sys.exit(1)
MainLoadedUnchecked ==
    /\ pc = "load_return"
    /\ pc' = "weight_filter" /\ status' = status
    /\ UNCHANGED <<graphVars, loadVars, args, trace, files>>

MainLoaded ==
    /\ pc = "load_return"
    /\ IF number_of_nodes(heap[cur]) = 0 THEN Exit(1)
       ELSE pc' = "weight_filter" /\ status' = status
    /\ UNCHANGED <<graphVars, loadVars, args, trace, files>>

\* if args.min_weight: G = loader.filter_by_weight(G, args.min_weight)
MainWeightFilter ==
    /\ pc = "weight_filter"
    /\ IF args.min_weight # None /\ args.min_weight # 0
       THEN /\ Record(cur, "filter_by_weight", args.min_weight, "",
                      filter_by_weight(Keep(heap, {cur}), cur, args.min_weight))
            /\ trace' = Append(trace, "weight_filter")
       ELSE UNCHANGED <<graphVars, trace>>
    /\ pc' = "isolation_filter"
    /\ UNCHANGED <<loadVars, args, status, files>>

\* if args.remove_isolated: G = loader.remove_isolated(G)
MainIsolationFilter ==
    /\ pc = "isolation_filter"
    /\ \E flag \in BOOLEAN :
          /\ args' = [args EXCEPT !.remove_isolated = flag]
          /\ IF flag
             THEN /\ Record(cur, "remove_isolated", None, "",
                            remove_isolated(Keep(heap, {cur}), cur))
                  /\ trace' = Append(trace, "isolation_filter")
             ELSE UNCHANGED <<graphVars, trace>>
    /\ pc' = "subgraph"
    /\ UNCHANGED <<loadVars, status, files>>

\* if args.root: try: G = loader.extract_subgraph(G, args.root, args.depth)
\*               except ValueError: sys.exit(1)
MainSubgraph ==
    /\ pc = "subgraph"
    /\ \E root \in RootArgs :
          /\ args' = [args EXCEPT !.root = root]
          /\ IF root # ""
             THEN LET r == extract_subgraph(Keep(heap, {cur}), cur, root, args.depth)
                  IN  /\ Record(cur, "extract_subgraph", args.depth, root, r)
                      /\ trace' = Append(trace, "subgraph")
                      /\ IF r.raised # "" THEN Exit(1)
                         ELSE pc' = "stats" /\ status' = status
             ELSE /\ UNCHANGED <<graphVars, trace, status>>
                  /\ pc' = "stats"
    /\ UNCHANGED <<loadVars, files>>

\* stats = loader.get_stats(G); the printout; if args.stats: return
MainStats ==
    /\ pc = "stats"
    /\ trace' = Append(trace, "statistics")
    /\ \E flag \in BOOLEAN :
          /\ args' = [args EXCEPT !.stats = flag]
          /\ IF flag THEN pc' = "done" /\ status' = 0
             ELSE pc' = "render_mkdir" /\ status' = status
    /\ UNCHANGED <<graphVars, loadVars, files>>

\* renderer.render_cosmograph(G, args.output, layout=args.layout), whose
\* exceptions main answers with sys.exit(1).
\* output_dir.mkdir(parents=True, exist_ok=True)
RenderMkdir ==
    /\ pc = "render_mkdir"
    /\ trace' = Append(trace, "export")
    /\ \/ pc' = "render_layout" /\ status' = status
       \/ Exit(1)
    /\ UNCHANGED <<graphVars, loadVars, args, files>>

\* positions = compute_layout(G, layout); normalize_positions(...)
RenderLayout ==
    /\ pc = "render_layout"
    /\ \E layout \in (IF args.layout = "" THEN LayoutArgs ELSE {args.layout}) :
       \E have_pygraphviz \in BOOLEAN :
          /\ args' = [args EXCEPT !.layout = layout]
          /\ call' = [NoCall EXCEPT !.op = "compute_layout",
                                   !.raised = compute_layout(layout, have_pygraphviz)]
          /\ IF compute_layout(layout, have_pygraphviz) = ""
             THEN pc' = "export_nodes" /\ status' = status
             ELSE Exit(1)
    /\ UNCHANGED <<heap, cur, loadVars, trace, files>>

\* export_nodes_to_csv: open nodes.csv, write the rows, close; an OSError
\* leaves no file (open failed) or some of the rows
ExportNodesGoesOn ==
    /\ pc = "export_nodes"
    /\ LET rows == node_csv_rows(heap[cur]) IN
          \E k \in 0..Len(rows) :
              files' = [files EXCEPT !.nodes =
                 [exists |-> TRUE, rows |-> SubSeq(rows, 1, k),
                  complete |-> k = Len(rows)]]
    /\ pc' = "export_edges" /\ status' = status
    /\ UNCHANGED <<graphVars, loadVars, args, trace>>

ExportNodes ==
    /\ pc = "export_nodes"
    /\ LET rows == node_csv_rows(heap[cur]) IN
       \/ /\ files' = [files EXCEPT !.nodes =
                          [exists |-> TRUE, rows |-> rows, complete |-> TRUE]]
          /\ pc' = "export_edges" /\ status' = status
       \/ /\ \/ files' = files
             \/ \E k \in 0..Len(rows) :
                   files' = [files EXCEPT !.nodes =
                      [exists |-> TRUE, rows |-> SubSeq(rows, 1, k),
                       complete |-> FALSE]]
          /\ Exit(1)
    /\ UNCHANGED <<graphVars, loadVars, args, trace>>

\* export_edges_to_csv: the same for edges.csv; then main ends
ExportEdges ==
    /\ pc = "export_edges"
    /\ LET rows == edge_csv_rows(heap[cur]) IN
       \/ /\ files' = [files EXCEPT !.edges =
                          [exists |-> TRUE, rows |-> rows, complete |-> TRUE]]
          /\ pc' = "done" /\ status' = 0
       \/ /\ \/ files' = files
             \/ \E k \in 0..Len(rows) :
                   files' = [files EXCEPT !.edges =
                      [exists |-> TRUE, rows |-> SubSeq(rows, 1, k),
                       complete |-> FALSE]]
          /\ Exit(1)
    /\ UNCHANGED <<graphVars, loadVars, args, trace>>

Next ==
    \/ MainValidate
    \/ MainLoad
    \/ LoadConnect
    \/ LoadSchema
    \/ LoadNodesQuery
    \/ LoadNodesInsert
    \/ LoadEdgesQuery
    \/ LoadEdgesInsert
    \/ LoadFinally
    \/ MainLoadRaised
    \/ MainLoaded
    \/ MainWeightFilter
    \/ MainIsolationFilter
    \/ MainSubgraph
    \/ MainStats
    \/ RenderMkdir
    \/ RenderLayout
    \/ ExportNodes
    \/ ExportEdges

Spec == Init /\ [][Next]_vars

(***************************************************************************)
(* The filter specification: a caller holds a graph and applies the        *)
(* filters to the graphs it holds, in any order and with any arguments,    *)
(* and may afterwards remove a node or an edge from the graph it was       *)
(* handed back, which ends the behaviour.                                  *)
(***************************************************************************)
\* the attribute dict load_graph gives a node row
RowAttrs(d) == [domain |-> d, description |-> "", crawl_count |-> 1, depth |-> 0]

\* Node attributes of the input graphs: distinct domains; one domain twice
\* with its other spelling between; a node that only an edge row named
\* (empty dict) before two nodes of one domain.
Labelings ==
    {[n \in NodeIds |-> RowAttrs(IF n = 1 THEN "a.com" ELSE IF n = 2 THEN "b.com"
                                 ELSE "c.com")],
     [n \in NodeIds |-> RowAttrs(IF n = 2 THEN "B.com" ELSE "b.com")],
     [n \in NodeIds |-> IF n = 1 THEN EmptyDict ELSE RowAttrs("B.com")]}

\* node orders: identifiers 1..n, ascending or descending
NodeOrders ==
    UNION {{[i \in 1..n |-> i], [i \in 1..n |-> n + 1 - i]} : n \in 0..Cardinality(NodeIds)}

InputGraphs ==
    UNION {UNION {UNION {
        {[nodes |-> ord, attr |-> [n \in Range(ord) |-> lab[n]],
          edges |-> [e \in E |-> [weight |-> w[e]]]] :
            w \in [E -> Weights]} :
        E \in {F \in SUBSET (Range(ord) \X Range(ord)) : Cardinality(F) <= MaxEdges}} :
        lab \in Labelings} :
        ord \in NodeOrders}

\* no program runs: the filters are called as a library
InitFilters ==
    /\ \E g \in InputGraphs : heap = (1 :> g)
    /\ cur = 1
    /\ call = NoCall
    /\ pc = "library" /\ args = NoArgs /\ status = None /\ trace = <<>>
    /\ conn = "none" /\ closes = 0 /\ schema_info = NoSchema
    /\ node_rows = <<>> /\ edge_rows = <<>> /\ exc = ""
    /\ files = [nodes |-> NoFile, edges |-> NoFile]

\* G = filter_by_weight(G, min_weight), and likewise for the other two
CallFilterByWeight ==
    /\ ~call.touched
    /\ \E min_weight \in Thresholds :
           Record(cur, "filter_by_weight", min_weight, "",
                  filter_by_weight(Keep(heap, {cur}), cur, min_weight))
    /\ UNCHANGED <<loadVars, mainVars>>

CallRemoveIsolated ==
    /\ ~call.touched
    /\ Record(cur, "remove_isolated", None, "",
              remove_isolated(Keep(heap, {cur}), cur))
    /\ UNCHANGED <<loadVars, mainVars>>

CallExtractSubgraph ==
    /\ ~call.touched
    /\ \E root_domain \in RootDomains : \E depth \in Depths :
           Record(cur, "extract_subgraph", depth, root_domain,
                  extract_subgraph(Keep(heap, {cur}), cur, root_domain, depth))
    /\ UNCHANGED <<loadVars, mainVars>>

\* the caller changes the graph it was handed back
TouchRemoveNode ==
    /\ call.op # "none" /\ call.raised = "" /\ ~call.touched
    /\ \E n \in NodeSet(heap[call.out]) :
           heap' = [heap EXCEPT ![call.out] = remove_nodes_from(@, {n})]
    /\ call' = [call EXCEPT !.touched = TRUE]
    /\ UNCHANGED <<cur, loadVars, mainVars>>

TouchRemoveEdge ==
    /\ call.op # "none" /\ call.raised = "" /\ ~call.touched
    /\ \E e \in EdgeSet(heap[call.out]) :
           heap' = [heap EXCEPT ![call.out] = remove_edges_from(@, {e})]
    /\ call' = [call EXCEPT !.touched = TRUE]
    /\ UNCHANGED <<cur, loadVars, mainVars>>

NextFilters ==
    \/ CallFilterByWeight
    \/ CallRemoveIsolated
    \/ CallExtractSubgraph
    \/ TouchRemoveNode
    \/ TouchRemoveEdge

SpecFilters == InitFilters /\ [][NextFilters]_vars

(***************************************************************************)
(* Properties of the filters, under SpecFilters.                           *)
(***************************************************************************)
Returned(op) == call.op = op /\ call.raised = ""

Weight(g, e) == g.edges[e]["weight"]

\* the graph of the scenarios: 1:a.com, 2:b.com, 3:c.com, (1,2,w=1), (2,3,w=5)
ScenarioGraph(g) ==
    /\ NodeSet(g) = {1, 2, 3}
    /\ Get(g.attr[1], "domain", "") = "a.com"
    /\ Get(g.attr[2], "domain", "") = "b.com"
    /\ Get(g.attr[3], "domain", "") = "c.com"
    /\ EdgeSet(g) = {<<1, 2>>, <<2, 3>>}
    /\ Weight(g, <<1, 2>>) = 1 /\ Weight(g, <<2, 3>>) = 5

\* C1: with min_weight >= 0, filter_by_weight returns a graph with the nodes
\* of G (and their attributes) and exactly the edges of G of weight >=
\* min_weight, each with its weight; on the scenario graph with min_weight 2
\* only edge (2,3) is left and node 1 is still there.
C1_WeightFilterKeepsExactlyHeavyEdges ==
    (call.op = "filter_by_weight" /\ call.num >= 0) =>
        /\ call.raised = ""
        /\ call.ret.nodes = call.before.nodes
        /\ call.ret.attr = call.before.attr
        /\ EdgeSet(call.ret) =
               {e \in EdgeSet(call.before) : Weight(call.before, e) >= call.num}
        /\ \A e \in EdgeSet(call.ret) : call.ret.edges[e] = call.before.edges[e]
        /\ (ScenarioGraph(call.before) /\ call.num = 2) =>
               (EdgeSet(call.ret) = {<<2, 3>>} /\ 1 \in NodeSet(call.ret))

C1_Witness ==
    /\ Returned("filter_by_weight") /\ call.num = 2
    /\ ScenarioGraph(call.before)
    /\ EdgeSet(call.ret) = {<<2, 3>>}
    /\ isolates(call.ret) = {1}

HasIncidentEdge(g, n) == \E e \in EdgeSet(g) : e[1] = n \/ e[2] = n

\* C2: remove_isolated returns a graph whose nodes are exactly the nodes of G
\* with an incident edge (in or out), whose edges are G's, and the count it
\* reports is the number of nodes removed.
C2_RemoveIsolatedKeepsExactlyConnectedNodes ==
    call.op = "remove_isolated" =>
        /\ call.raised = ""
        /\ NodeSet(call.ret) = {n \in NodeSet(call.before) : HasIncidentEdge(call.before, n)}
        /\ call.ret.edges = call.before.edges
        /\ call.reported = Cardinality(NodeSet(call.before) \ NodeSet(call.ret))

C2_Witness ==
    /\ Returned("remove_isolated")
    /\ call.reported = 1
    /\ \E n \in NodeSet(call.ret) : successors(call.before, n) = {}
    /\ \E n \in NodeSet(call.ret) : predecessors(call.before, n) = {}

\* the nodes carrying the domain, by position in the iteration order
Carriers(g, d) ==
    {i \in 1..Len(g.nodes) :
        "domain" \in DOMAIN g.attr[g.nodes[i]] /\ g.attr[g.nodes[i]]["domain"] = d}

FirstCarrier(g, d) == g.nodes[Min(Carriers(g, d))]

Adjacent(g, a, b) == <<a, b>> \in EdgeSet(g) \/ <<b, a>> \in EdgeSet(g)

\* n is at undirected distance at most k from root: a walk of at most k edges
WithinHops(g, root, n, k) ==
    \E len \in 0..k : \E p \in [0..len -> NodeSet(g)] :
        /\ p[0] = root /\ p[len] = n
        /\ \A i \in 1..len : Adjacent(g, p[i - 1], p[i])

\* C3: when some node carries root_domain and depth >= 1, extract_subgraph
\* returns the subgraph induced on the nodes at undirected distance at most
\* depth from the root; on the scenario graph, root b.com and depth 1 give
\* nodes {1,2,3} and both edges.
C3_SubgraphIsInducedHopNeighbourhood ==
    (call.op = "extract_subgraph" /\ Carriers(call.before, call.root_domain) # {}
        /\ call.num >= 1) =>
        LET root == FirstCarrier(call.before, call.root_domain)
            near == {n \in NodeSet(call.before) :
                        WithinHops(call.before, root, n, call.num)}
        IN  /\ call.raised = ""
            /\ NodeSet(call.ret) = near
            /\ EdgeSet(call.ret) =
                   {e \in EdgeSet(call.before) : e[1] \in near /\ e[2] \in near}
            /\ (ScenarioGraph(call.before) /\ call.root_domain = "b.com"
                    /\ call.num = 1) =>
                   (NodeSet(call.ret) = {1, 2, 3}
                        /\ EdgeSet(call.ret) = {<<1, 2>>, <<2, 3>>})

C3_Witness ==
    /\ Returned("extract_subgraph") /\ call.num = 1
    /\ \E n \in NodeSet(call.before) : n \notin NodeSet(call.ret)
    /\ \E e \in EdgeSet(call.ret) : e[2] = call.root_id
    /\ \E e \in EdgeSet(call.ret) : e[1] # call.root_id /\ e[2] # call.root_id

\* C4: extract_subgraph raises (and returns no graph) exactly when no node
\* has a domain attribute equal to root_domain, letter case included; when
\* several have it, the root is the first of them in iteration order.
C4_NotFoundIffNoExactDomain ==
    call.op = "extract_subgraph" =>
        /\ (call.raised # "") <=> (Carriers(call.before, call.root_domain) = {})
        /\ call.raised # "" => (call.out = None /\ DOMAIN heap = {call.in})
        /\ call.raised = "" =>
               /\ call.root_id = FirstCarrier(call.before, call.root_domain)
               /\ call.out \in DOMAIN heap

C4_Witness ==
    /\ call.op = "extract_subgraph" /\ call.raised # ""
    /\ call.root_domain = "b.com"
    /\ Carriers(call.before, "B.com") # {}

C4_WitnessFirstOfSeveral ==
    /\ Returned("extract_subgraph")
    /\ Cardinality(Carriers(call.before, call.root_domain)) >= 2
    /\ \E n \in NodeSet(call.before) : n < call.root_id
            /\ "domain" \in DOMAIN call.before.attr[n]
            /\ call.before.attr[n]["domain"] = call.root_domain

\* C5 as claimed: filter_by_weight with a negative min_weight fails and
\* returns no graph.
C5_NegativeThresholdFails ==
    (call.op = "filter_by_weight" /\ call.num < 0) =>
        (call.raised # "" /\ call.out = None)

\* C5 as the code has it: filter_by_weight does not check min_weight; with a
\* negative one it raises nothing and returns the graph with G's nodes and
\* the edges of weight >= min_weight, as for any other threshold.
C5_NegativeThresholdFiltersAsUsual ==
    (call.op = "filter_by_weight" /\ call.num < 0) =>
        /\ call.raised = ""
        /\ call.out \in DOMAIN heap
        /\ call.ret.nodes = call.before.nodes
        /\ EdgeSet(call.ret) =
               {e \in EdgeSet(call.before) : Weight(call.before, e) >= call.num}

C5_Witness ==
    /\ Returned("filter_by_weight") /\ call.num < 0
    /\ EdgeSet(call.ret) # {}

\* C6: no filter changes its input graph, whether it returns or raises, and
\* removing a node or an edge from the returned graph afterwards does not
\* change the input graph either.
C6_InputGraphUnchanged ==
    call.op # "none" => (call.in \in DOMAIN heap /\ heap[call.in] = call.before)

C6_Witness ==
    /\ call.touched
    /\ call.ret # call.before
    /\ heap[call.out] # call.ret
    /\ number_of_nodes(call.before) > number_of_nodes(heap[call.out])

C6_WitnessRaised ==
    /\ call.op = "extract_subgraph" /\ call.raised # ""
    /\ EdgeSet(call.before) # {}

\* C7: remove_isolated applied to a graph remove_isolated returned gives the
\* same nodes and edges and removes nothing.
C7_RemoveIsolatedIdempotent ==
    (call.op = "remove_isolated" /\ call.in_op = "remove_isolated") =>
        /\ NodeSet(call.ret) = NodeSet(call.before)
        /\ EdgeSet(call.ret) = EdgeSet(call.before)
        /\ number_of_nodes(call.ret) = number_of_nodes(call.before)
        /\ number_of_edges(call.ret) = number_of_edges(call.before)
        /\ call.reported = 0

C7_Witness ==
    /\ Returned("remove_isolated") /\ call.in_op = "remove_isolated"
    /\ number_of_edges(call.before) >= 1
    /\ number_of_nodes(call.before) >= 2

\* the number of edges filter_by_weight leaves of graph g at threshold w
EdgesLeft(g, w) ==
    LET r == filter_by_weight(1 :> g, 1, w) IN number_of_edges(r.heap[r.ret])

\* C8: for thresholds w1 <= w2, filter_by_weight(G, w2) has at most as many
\* edges as filter_by_weight(G, w1).
C8_WeightFilterMonotone ==
    call.op = "filter_by_weight" =>
        \A w1 \in Thresholds :
            w1 <= call.num =>
                number_of_edges(call.ret) <= EdgesLeft(call.before, w1)

C8_Witness ==
    /\ Returned("filter_by_weight")
    /\ \E w1 \in Thresholds :
           w1 < call.num /\ number_of_edges(call.ret) < EdgesLeft(call.before, w1)
    /\ number_of_edges(call.ret) >= 1

(***************************************************************************)
(* Properties of the program, under Spec.                                  *)
(***************************************************************************)
NoFilterRan ==
    \A i \in 1..Len(trace) :
        trace[i] \notin {"weight_filter", "isolation_filter", "subgraph"}

\* the run loaded, applied no filter and came to the end of the export
RoundTripDone == pc = "done" /\ "export" \in Range(trace) /\ NoFilterRan

SourceNodeIds == {node_rows[i][1] : i \in 1..Len(node_rows)}
SourcePairs   == {<<edge_rows[i][1], edge_rows[i][2]>> : i \in 1..Len(edge_rows)}
SourceEnds    == {p[1] : p \in SourcePairs} \cup {p[2] : p \in SourcePairs}

\* C9 as claimed: a source with N node rows and M edge rows, loaded and
\* exported with no filter, gives N data rows in nodes.csv and M in edges.csv.
C9_RoundTripRowCounts ==
    RoundTripDone =>
        /\ Len(files.nodes.rows) = Len(node_rows)
        /\ Len(files.edges.rows) = Len(edge_rows)

\* C9 as the code has it: nodes.csv gets one row per distinct node id among
\* the node rows and the edge rows' endpoints, edges.csv one row per distinct
\* ordered pair of the edge rows: N and M when no pair repeats and every
\* endpoint is in the nodes relation.  A source that loads to a graph without
\* nodes makes main exit with status 1 and write no file.
C9_RoundTripDistinctCounts ==
    /\ RoundTripDone =>
        /\ files.nodes.complete /\ files.edges.complete
        /\ Len(files.nodes.rows) = Cardinality(SourceNodeIds \cup SourceEnds)
        /\ Len(files.edges.rows) = Cardinality(SourcePairs)
        /\ (Cardinality(SourcePairs) = Len(edge_rows) /\ SourceEnds \subseteq SourceNodeIds)
               => /\ Len(files.nodes.rows) = Len(node_rows)
                  /\ Len(files.edges.rows) = Len(edge_rows)
        /\ Len(node_rows) + Len(edge_rows) >= 1
    /\ (pc \notin {"validate", "load", "load_connect", "load_schema",
                   "load_nodes_query", "load_nodes_insert", "load_edges_query",
                   "load_edges_insert", "load_finally", "load_return"}
            /\ exc = "" /\ conn = "closed"
            /\ Len(node_rows) = 0 /\ Len(edge_rows) = 0) =>
           /\ pc = "exited" /\ status = 1
           /\ ~files.nodes.exists /\ ~files.edges.exists

C9_Witness ==
    /\ RoundTripDone
    /\ Len(files.edges.rows) < Len(edge_rows)
    /\ Len(files.nodes.rows) > Len(node_rows)

C9_WitnessEmpty ==
    /\ pc = "exited" /\ conn = "closed" /\ exc = ""
    /\ Len(node_rows) = 0 /\ Len(edge_rows) = 0

InsideTry ==
    {"load_schema", "load_nodes_query", "load_nodes_insert", "load_edges_query",
     "load_edges_insert", "load_finally"}

\* C10: the connection is open exactly while load_graph is inside its try
\* block, whose every exit closes it: it is not closed before the queries and
\* the loops have run or raised, it is closed when load_graph has returned
\* or raised (wherever the failure was), and close() is called once.
C10_ConnectionReleased ==
    /\ conn = "open" <=> pc \in InsideTry
    /\ closes = IF conn = "closed" THEN 1 ELSE 0
    /\ conn = "none" =>
           (pc \in {"validate", "load", "load_connect"}
                \/ (pc = "load_raised" /\ exc = "sqlite3.Error")
                \/ (pc = "exited" /\ Len(trace) <= 2))
    /\ pc = "load_return" => (conn = "closed" /\ exc = "")

C10_Witness ==
    /\ pc = "load_raised" /\ exc = "ValueError"
    /\ conn = "closed" /\ closes = 1
    /\ Len(edge_rows) >= 1

C10_WitnessQueryFailed ==
    /\ pc = "load_raised" /\ exc = "sqlite3.Error"
    /\ conn = "closed" /\ closes = 1
    /\ Len(node_rows) >= 1 /\ Len(edge_rows) = 0

PairOfRow(i) == <<edge_rows[i][1], edge_rows[i][2]>>
LastRowOf(p) ==
    CHOOSE i \in 1..Len(edge_rows) :
        PairOfRow(i) = p /\ \A j \in (i + 1)..Len(edge_rows) : PairOfRow(j) # p
DefaultedWeight(i) ==
    IF edge_rows[i][3] = None \/ edge_rows[i][3] = 0 THEN 1 ELSE edge_rows[i][3]

\* C11: the graph load_graph returns has one edge per ordered pair of the
\* edge rows, however many rows name the pair, and the edge's weight is the
\* defaulted weight of the last row of that pair in the order the rows were
\* read; (a,b) and (b,a) are two edges.
C11_OneEdgePerPairLastRowWins ==
    pc = "load_return" =>
        /\ EdgeSet(heap[cur]) = SourcePairs
        /\ number_of_edges(heap[cur]) = Cardinality(SourcePairs)
        /\ \A p \in SourcePairs :
               /\ heap[cur].edges[p] = [weight |-> DefaultedWeight(LastRowOf(p))]
               /\ (<<p[2], p[1]>> \in SourcePairs /\ p[1] # p[2]) =>
                      number_of_edges(heap[cur]) >= 2

C11_Witness ==
    /\ pc = "load_return"
    /\ Len(edge_rows) = 2
    /\ PairOfRow(1) = PairOfRow(2)
    /\ DefaultedWeight(1) # DefaultedWeight(2)
    /\ number_of_edges(heap[cur]) = 1

C11_WitnessBothDirections ==
    /\ pc = "load_return"
    /\ SourcePairs = {<<1, 2>>, <<2, 1>>}
    /\ number_of_edges(heap[cur]) = 2

\* C12: every edge of the graph load_graph returns has a weight that is a
\* positive integer: a NULL or zero source weight becomes 1 and, whatever
\* integer the weight column holds, the loaded weight is at least 1.
C12_LoadedWeightsPositive ==
    pc = "load_return" =>
        \A p \in EdgeSet(heap[cur]) :
            /\ heap[cur].edges[p]["weight"] \in Int
            /\ heap[cur].edges[p]["weight"] >= 1
            /\ edge_rows[LastRowOf(p)][3] \in {None, 0} =>
                   heap[cur].edges[p]["weight"] = 1

(***************************************************************************)
(* renderer.py: the functions of the visual encoding, called on their own. *)
(* A coordinate is an exact fraction num/den; the floating point results   *)
(* of normalize_positions are its roundings, which keep the order and the  *)
(* end points 0 and scale.                                                 *)
(***************************************************************************)
MaxCoord == 2    \* layout coordinates are 0..MaxCoord

PosNodes   == {1, 2, 3}
Coords     == 0..MaxCoord
ScaleArgs  == {1, 10}    \* 10.0 is the default scale
JitterArgs == {0, 1}     \* 0.0 is the default jitter

Max(S) == CHOOSE x \in S : \A y \in S : y <= x

\* the position dictionaries a layout hands over, the empty one included
PositionSets == UNION {[ns -> Coords \X Coords] : ns \in SUBSET PosNodes}

\* random.uniform(-jitter, jitter): the two ends of the interval it draws
\* from, which bound every value it returns
Uniform(jitter) == {0 - jitter, jitter}

\* range_x = max_x - min_x if max_x != min_x else 1.0
axis_range_padded(lo, hi) == hi - lo + 1

axis_range(lo, hi) == IF hi # lo THEN hi - lo ELSE 1

\* normalize_positions(pos, scale, jitter); noise[n] is the pair of values
\* random.uniform returns for node n
normalize_positions(pos, scale, jitter, noise) ==
    IF DOMAIN pos = {} THEN EmptyDict
    ELSE
      LET xs == {pos[n][1] : n \in DOMAIN pos}
          ys == {pos[n][2] : n \in DOMAIN pos}
          min_x == Min(xs)
          max_x == Max(xs)
          min_y == Min(ys)
          max_y == Max(ys)
          range_x == axis_range(min_x, max_x)
          range_y == axis_range(min_y, max_y)
      IN  [n \in DOMAIN pos |->
             LET norm_x == (pos[n][1] - min_x) * scale
                 norm_y == (pos[n][2] - min_y) * scale
             IN  IF jitter > 0
                 THEN <<[num |-> norm_x + noise[n][1] * range_x, den |-> range_x],
                        [num |-> norm_y + noise[n][2] * range_y, den |-> range_y]>>
                 ELSE <<[num |-> norm_x, den |-> range_x],
                        [num |-> norm_y, den |-> range_y]>>]

NoNoise(pos) == [n \in DOMAIN pos |-> <<0, 0>>]

Resolution == 2000    \* normalized values are drawn from the grid k/Resolution, two
                      \* steps of which change a channel by less than one unit
MaxLog     == 7       \* degrees 2^m - 1 for m up to MaxLog

\* math.log2(x) where it is an integer: x a power of two
RECURSIVE Log2(_)
Log2(x) == IF x <= 1 THEN 0 ELSE 1 + Log2(x \div 2)

RECURSIVE Pow2(_)
Pow2(m) == IF m = 0 THEN 1 ELSE 2 * Pow2(m - 1)

\* int(x) of Python for the fraction a/b, b > 0: rounds towards zero
IntOf(a, b) == IF a >= 0 THEN a \div b ELSE 0 - ((0 - a) \div b)

HexDigits == <<"0", "1", "2", "3", "4", "5", "6", "7", "8", "9",
               "a", "b", "c", "d", "e", "f">>

RECURSIVE HexOf(_)
HexOf(v) == IF v < 16 THEN <<HexDigits[v + 1]>>
            ELSE HexOf(v \div 16) \o <<HexDigits[(v % 16) + 1]>>

\* f"{v:02x}": at least two characters, zero padded, sign first
Format02x(v) ==
    IF v < 0 THEN <<"-">> \o HexOf(0 - v)
    ELSE IF v < 16 THEN <<"0">> \o HexOf(v)
    ELSE HexOf(v)

\* the green channel of the middle segment without the halving of factor
green_mid_steep(num, den) == IntOf(255 * (66 * den - 100 * num), 33 * den)

\* green = int(255 * (1 - factor * 0.5)), factor = (normalized - 0.33) / 0.33
green_mid(num, den) == IntOf(255 * (99 * den - 100 * num), 66 * den)

\* the gradient of calculate_node_color at normalized = num/den, in exact
\* arithmetic (where factor * 255 is a whole number other than at 0 and 0.33
\* the floating point product can fall just short of it)
node_gradient(num, den) ==
    LET rgb ==
          IF 100 * num <= 33 * den
          THEN [red |-> IntOf(255 * 100 * num, 33 * den), green |-> 255, blue |-> 0]
          ELSE IF 100 * num <= 66 * den
          THEN [red |-> 255, green |-> green_mid(num, den), blue |-> 0]
          ELSE [red |-> 255, green |-> IntOf(128 * (100 * den - 100 * num), 34 * den),
                blue |-> 0]
    IN  [red |-> rgb.red, green |-> rgb.green, blue |-> rgb.blue,
         hex |-> <<"#">> \o Format02x(rgb.red) \o Format02x(rgb.green)
                         \o Format02x(rgb.blue)]

\* normalized = min(math.log2(degree + 1) / 6.0, 1.0), for a degree 2^m - 1
normalized_degree(deg) ==
    IF Log2(deg + 1) >= 6 THEN [num |-> 1, den |-> 1]
    ELSE [num |-> Log2(deg + 1), den |-> 6]

calculate_node_color(deg) ==
    node_gradient(normalized_degree(deg).num, normalized_degree(deg).den)

\* the degrees whose logarithm is exact, and the grid that stands for the
\* normalized values of the others
PowerDegrees     == {Pow2(m) - 1 : m \in 0..MaxLog}
NormalizedValues == {[num |-> k, den |-> Resolution] : k \in 0..Resolution}

(* sanitize_domain_name: a string is the sequence of its characters *)
MaxLen == 3    \* length of the domain values tried, the two named ones apart

Letters    == {"a", "c", "e", "l", "m", "o", "p", "x", "Z"}
Digits     == {"0", "1", "2", "3", "4", "5", "6", "7", "8", "9"}
SmallChars == {"a", "1", ".", "-", ",", " ", "!"}
HashValues == {0, 7, 9999}    \* values of hash(domain) % 10000

ExampleCommaCom == <<"e", "x", "a", "m", "p", "l", "e", ",", "c", "o", "m">>
ExampleDotCom   == <<"e", "x", "a", "m", "p", "l", "e", ".", "c", "o", "m">>
Bangs           == <<"!", "!", "!">>
Unknown         == <<"u", "n", "k", "n", "o", "w", "n">>
InvalidPrefix   == <<"i", "n", "v", "a", "l", "i", "d", "_",
                     "d", "o", "m", "a", "i", "n", "_">>

DomainValues ==
    UNION {[1..n -> SmallChars] : n \in 0..MaxLen} \cup {ExampleCommaCom, Bangs}

RECURSIVE DecOf(_)
DecOf(v) == IF v < 10 THEN <<HexDigits[v + 1]>>
            ELSE DecOf(v \div 10) \o <<HexDigits[(v % 10) + 1]>>

RECURSIVE LStrip(_)
LStrip(t) == IF t # <<>> /\ Head(t) = " " THEN LStrip(Tail(t)) ELSE t
RECURSIVE RStrip(_)
RStrip(t) == IF t # <<>> /\ t[Len(t)] = " " THEN RStrip(SubSeq(t, 1, Len(t) - 1))
             ELSE t
\* str.strip()
Strip(t) == RStrip(LStrip(t))

Has(t, c) == \E i \in 1..Len(t) : t[i] = c

\* str.split(','): the parts between the commas, empty ones included
RECURSIVE Split(_, _)
Split(t, part) ==
    IF t = <<>> THEN <<part>>
    ELSE IF Head(t) = "," THEN <<part>> \o Split(Tail(t), <<>>)
    ELSE Split(Tail(t), Append(part, Head(t)))

\* str.isalnum(): not empty and made of letters and digits
IsAlnum(t) == t # <<>> /\ \A i \in 1..Len(t) : t[i] \in Letters \cup Digits

\* '.'.join(parts)
RECURSIVE Join(_)
Join(parts) == IF Len(parts) = 1 THEN parts[1]
               ELSE parts[1] \o <<".">> \o Join(Tail(parts))

\* re.sub(r'[^a-zA-Z0-9.-]', '', cleaned)
KeepDomainChars(t) == SelectSeq(t, LAMBDA c : c \in Letters \cup Digits \cup {".", "-"})

\* the comma repair (lines 293-298)
fix_commas(cleaned) ==
    IF Has(cleaned, ",") /\ ~Has(cleaned, ".")
    THEN LET parts == Split(cleaned, <<>>) IN
         IF Len(parts) >= 2
            /\ \A i \in 1..Len(parts) : IsAlnum(parts[i]) \/ Has(parts[i], "-")
         THEN Join(parts) ELSE cleaned
    ELSE cleaned

\* the last check (lines 306-308) left out
or_placeholder_never(cleaned, h) == cleaned

\* if not cleaned or cleaned in ['.', '-']: the placeholder
or_placeholder(cleaned, h) ==
    IF cleaned = <<>> \/ cleaned = <<".">> \/ cleaned = <<"-">>
    THEN InvalidPrefix \o DecOf(h) ELSE cleaned

\* sanitize_domain_name(domain); h is hash(domain) % 10000
sanitize_domain_name(domain, h) ==
    IF domain = <<>> THEN Unknown
    ELSE or_placeholder(KeepDomainChars(fix_commas(Strip(domain))), h)

InitRender ==
    /\ heap = EmptyDict /\ cur = None
    /\ call = [op |-> "none"]
    /\ pc = "renderer" /\ args = NoArgs /\ status = None /\ trace = <<>>
    /\ conn = "none" /\ closes = 0 /\ schema_info = NoSchema
    /\ node_rows = <<>> /\ edge_rows = <<>> /\ exc = ""
    /\ files = [nodes |-> NoFile, edges |-> NoFile]

CallNormalizePositions ==
    /\ pc = "renderer" /\ call.op = "none"
    /\ \E pos \in PositionSets : \E scale \in ScaleArgs : \E jitter \in JitterArgs :
       \E noise \in IF jitter > 0
                    THEN [DOMAIN pos -> Uniform(jitter) \X Uniform(jitter)]
                    ELSE {NoNoise(pos)} :
          call' = [op |-> "normalize_positions", pos |-> pos, scale |-> scale,
                   jitter |-> jitter,
                   ret |-> normalize_positions(pos, scale, jitter, noise)]
    /\ UNCHANGED <<heap, cur, loadVars, mainVars>>

CallCalculateNodeColor ==
    /\ pc = "renderer" /\ call.op = "none"
    /\ \/ \E deg \in PowerDegrees :
             call' = [op |-> "calculate_node_color", degree |-> deg,
                      normalized |-> normalized_degree(deg),
                      ret |-> calculate_node_color(deg)]
       \/ \E v \in NormalizedValues :
             call' = [op |-> "calculate_node_color", degree |-> None,
                      normalized |-> v, ret |-> node_gradient(v.num, v.den)]
    /\ UNCHANGED <<heap, cur, loadVars, mainVars>>

CallSanitizeDomainName ==
    /\ pc = "renderer" /\ call.op = "none"
    /\ \E domain \in DomainValues : \E h \in HashValues :
          call' = [op |-> "sanitize_domain_name", domain |-> domain,
                   ret |-> sanitize_domain_name(domain, h)]
    /\ UNCHANGED <<heap, cur, loadVars, mainVars>>

NextRender ==
    \/ CallNormalizePositions
    \/ CallCalculateNodeColor
    \/ CallSanitizeDomainName

SpecRender == InitRender /\ [][NextRender]_vars

Normalized == call.op = "normalize_positions" /\ DOMAIN call.pos # {}

\* coordinate c of the result (1: x, 2: y) of node n, as a fraction
Coord(n, c) == call.ret[n][c]
AtZero(n, c)  == Coord(n, c).num = 0
AtScale(n, c) == Coord(n, c).num = call.scale * Coord(n, c).den
InBox(n, c) ==
    /\ Coord(n, c).den > 0
    /\ (0 - call.jitter) * Coord(n, c).den <= Coord(n, c).num
    /\ Coord(n, c).num <= (call.scale + call.jitter) * Coord(n, c).den
FlatAxis(c) == \A m, n \in DOMAIN call.pos : call.pos[m][c] = call.pos[n][c]

\* C13 as claimed: the result has the nodes of P, every coordinate is in
\* [0 - j, S + j], and with j = 0 each axis has a node at 0 and a node at S,
\* also when all nodes share the coordinate on that axis.
C13_NormalizedReachesBothEnds ==
    Normalized =>
        /\ DOMAIN call.ret = DOMAIN call.pos
        /\ \A n \in DOMAIN call.ret : \A c \in {1, 2} : InBox(n, c)
        /\ call.jitter = 0 =>
               \A c \in {1, 2} :
                   /\ \E n \in DOMAIN call.ret : AtZero(n, c)
                   /\ \E n \in DOMAIN call.ret : AtScale(n, c)

\* C13 as the code has it: the same, but a node at S exists on an axis only
\* when the nodes do not all share that coordinate; when they do, every
\* node is at 0 on that axis.
C13_NormalizedInBox ==
    Normalized =>
        /\ DOMAIN call.ret = DOMAIN call.pos
        /\ \A n \in DOMAIN call.ret : \A c \in {1, 2} : InBox(n, c)
        /\ call.jitter = 0 =>
               \A c \in {1, 2} :
                   /\ \E n \in DOMAIN call.ret : AtZero(n, c)
                   /\ ~FlatAxis(c) => \E n \in DOMAIN call.ret : AtScale(n, c)
                   /\ FlatAxis(c) => \A n \in DOMAIN call.ret : AtZero(n, c)

C13_Witness ==
    /\ Normalized /\ call.jitter = 0
    /\ Cardinality(DOMAIN call.pos) = 3
    /\ FlatAxis(1) /\ ~FlatAxis(2)
    /\ \E n \in DOMAIN call.ret : ~AtZero(n, 2) /\ ~AtScale(n, 2)

C13_WitnessJitter ==
    /\ Normalized /\ call.jitter = 1
    /\ \E n \in DOMAIN call.ret :
          Coord(n, 1).num = (call.scale + 1) * Coord(n, 1).den

Coloured == call.op = "calculate_node_color"

Abs(x) == IF x < 0 THEN 0 - x ELSE x
NearColours(a, b) ==
    /\ Abs(a.red - b.red) <= 1
    /\ Abs(a.green - b.green) <= 1
    /\ Abs(a.blue - b.blue) <= 1

\* the grid value next above the one of the call, when the call's value is
\* the last of its segment (at or just below 0.33, or 0.66)
LastOfSegment(v) ==
    \/ 100 * v.num <= 33 * v.den /\ 100 * (v.num + 1) > 33 * v.den
    \/ 100 * v.num <= 66 * v.den /\ 100 * (v.num + 1) > 66 * v.den

\* C14: across 0.33 and across 0.66 the colour changes by at most one unit
\* in each channel (the value just below against the values at and just above
\* the boundary), and every colour is '#' and six hex digits, each channel
\* in 0..255.
C14_GradientContinuousAtBoundaries ==
    Coloured =>
        /\ call.ret.red \in 0..255 /\ call.ret.green \in 0..255
        /\ call.ret.blue \in 0..255
        /\ Len(call.ret.hex) = 7 /\ call.ret.hex[1] = "#"
        /\ \A i \in 2..7 : call.ret.hex[i] \in Range(HexDigits)
        /\ (call.normalized.den = Resolution /\ LastOfSegment(call.normalized)
                /\ call.normalized.num >= 1) =>
               /\ NearColours(call.ret,
                              node_gradient(call.normalized.num + 1, Resolution))
               /\ NearColours(node_gradient(call.normalized.num - 1, Resolution),
                              node_gradient(call.normalized.num + 1, Resolution))

C14_Witness ==
    /\ Coloured
    /\ call.normalized.den = Resolution /\ LastOfSegment(call.normalized)
    /\ 100 * call.normalized.num > 33 * call.normalized.den
    /\ call.ret.green = 127

C14_WitnessDegree ==
    /\ Coloured /\ call.degree = 3
    /\ call.ret.hex = <<"#", "f", "f", "f", "d", "0", "0">>

Sanitized == call.op = "sanitize_domain_name"

\* C15: sanitize_domain_name never returns the empty label, whatever the
\* value (empty, blanks, only characters that are dropped, a bare '.' or
\* '-', a domain); 'example,com' gives 'example.com' and '!!!' gives a
\* synthetic placeholder that is not empty.
C15_LabelNeverEmpty ==
    Sanitized =>
        /\ call.ret # <<>>
        /\ call.domain = ExampleCommaCom => call.ret = ExampleDotCom
        /\ call.domain = Bangs =>
               /\ Len(call.ret) > Len(InvalidPrefix)
               /\ SubSeq(call.ret, 1, Len(InvalidPrefix)) = InvalidPrefix
        /\ call.domain \in {<<".">>, <<"-">>, <<" ">>, <<" ", " ">>} =>
               SubSeq(call.ret, 1, Len(InvalidPrefix)) = InvalidPrefix

C15_Witness ==
    /\ Sanitized /\ call.domain = Bangs
    /\ call.ret = InvalidPrefix \o <<"9", "9", "9", "9">>

C15_WitnessExample ==
    Sanitized /\ call.domain = ExampleCommaCom /\ call.ret = ExampleDotCom

C15_WitnessBlank ==
    Sanitized /\ call.domain = <<" ", " ">> /\ call.ret = InvalidPrefix \o <<"7">>

StageOrder ==
    <<"validate", "load", "weight_filter", "isolation_filter", "subgraph",
      "statistics", "export">>
Rank(stage) == CHOOSE i \in 1..Len(StageOrder) : StageOrder[i] = stage
LastStage == IF trace = <<>> THEN "" ELSE trace[Len(trace)]
NoFileWritten == ~files.nodes.exists /\ ~files.edges.exists
LoadPcs ==
    {"load_connect", "load_schema", "load_nodes_query", "load_nodes_insert",
     "load_edges_query", "load_edges_insert", "load_finally", "load_return",
     "load_raised"}

\* C16: the stages of one run of main start in the order load, weight
\* filter, isolation filter, subgraph, statistics, export, none before the
\* one before it is over, and a failure ends the run: when load_graph
\* raises, when the loaded graph has no nodes and when extract_subgraph
\* raises, main exits with status 1, no later stage starts and no file is
\* written; with --stats the run ends after the statistics, with no file.
C16_StagesInOrderFailureTerminal ==
    /\ \A i, j \in 1..Len(trace) :
           i < j => Rank(trace[i]) < Rank(trace[j])
    /\ pc \in LoadPcs => LastStage = "load"
    /\ (Len(trace) > 2) =>
           /\ conn = "closed" /\ exc = ""
           /\ number_of_nodes(insert_edges(insert_nodes(EmptyGraph, node_rows, 1,
                                  schema_info["has_depth"]).G, edge_rows, 1).G) > 0
    /\ (files.nodes.exists \/ files.edges.exists) =>
           LastStage = "export" /\ ~args.stats
    /\ exc # "" =>
           /\ pc \in {"load_finally", "load_raised", "exited"}
           /\ LastStage = "load" /\ NoFileWritten
           /\ pc = "exited" => status = 1
    /\ (pc \in {"load_return", "exited"} /\ conn = "closed" /\ exc = ""
            /\ cur # None /\ LastStage = "load") =>
           /\ NoFileWritten
           /\ pc = "exited" => (status = 1 /\ number_of_nodes(heap[cur]) = 0)
    /\ (call.op = "extract_subgraph" /\ call.raised # "") =>
           /\ pc = "exited" /\ status = 1
           /\ LastStage = "subgraph" /\ NoFileWritten
    /\ args.stats =>
           /\ pc = "done" /\ status = 0
           /\ LastStage = "statistics" /\ NoFileWritten
    /\ pc = "done" => (status = 0 /\ (args.stats \/ LastStage = "export"))

C16_Witness ==
    /\ pc = "exited" /\ status = 1
    /\ call.op = "extract_subgraph" /\ call.raised # ""
    /\ trace = <<"validate", "load", "weight_filter", "isolation_filter", "subgraph">>

C16_WitnessAllStages ==
    /\ pc = "done" /\ trace = StageOrder
    /\ files.nodes.complete /\ files.edges.complete

C16_WitnessStatsOnly ==
    /\ pc = "done" /\ args.stats /\ LastStage = "statistics"
    /\ "subgraph" \in Range(trace)

(***************************************************************************)
(* render_cosmograph_csv called by a program of its own, with a graph and  *)
(* a layout name of its choice; "exited" is where the exception of a       *)
(* failed step takes that caller.                                          *)
(***************************************************************************)
LayoutNames == Layouts \cup {"circular"}

InitRenderCsv ==
    /\ \E g \in InputGraphs : heap = (1 :> g)
    /\ cur = 1 /\ call = NoCall
    /\ \E layout \in LayoutNames : args = [NoArgs EXCEPT !.layout = layout]
    /\ pc = "render_mkdir" /\ status = None /\ trace = <<>>
    /\ conn = "none" /\ closes = 0 /\ schema_info = NoSchema
    /\ node_rows = <<>> /\ edge_rows = <<>> /\ exc = ""
    /\ files = [nodes |-> NoFile, edges |-> NoFile]

NextRenderCsv ==
    \/ RenderMkdir
    \/ RenderLayout
    \/ ExportNodes
    \/ ExportEdges

SpecRenderCsv == InitRenderCsv /\ [][NextRenderCsv]_vars

LayoutFailed == call.op = "compute_layout" /\ call.raised # ""

\* C17: render_cosmograph_csv makes the directory, then computes the
\* layout, then writes nodes.csv in full and only then opens edges.csv:
\* whenever edges.csv exists nodes.csv is complete, so a failed edge export
\* can leave a complete nodes.csv without a complete edges.csv and never the
\* reverse; a failed layout (unknown name, missing backend) leaves no file.
C17_NodesCompleteBeforeEdges ==
    /\ files.edges.exists =>
           /\ files.nodes.exists /\ files.nodes.complete
           /\ files.nodes.rows = node_csv_rows(heap[cur])
    /\ files.nodes.exists =>
           /\ call.op = "compute_layout" /\ call.raised = ""
           /\ "export" \in Range(trace)
    /\ pc \in {"render_mkdir", "render_layout"} => NoFileWritten
    /\ pc = "export_nodes" => NoFileWritten
    /\ pc = "export_edges" => files.nodes.complete /\ ~files.edges.exists
    /\ LayoutFailed => pc = "exited" /\ NoFileWritten
    /\ args.layout \notin Layouts =>
           /\ NoFileWritten
           /\ pc \notin {"export_nodes", "export_edges"}
           /\ pc = "done" => "export" \notin Range(trace)
    /\ (pc = "done" /\ "export" \in Range(trace)) =>
           files.nodes.complete /\ files.edges.complete

C17_Witness ==
    /\ pc = "exited"
    /\ files.nodes.complete /\ Len(files.nodes.rows) >= 2
    /\ files.edges.exists /\ ~files.edges.complete
    /\ Len(files.edges.rows) = 1

C17_WitnessUnknownLayout ==
    pc = "exited" /\ call.raised = "ValueError" /\ args.layout = "circular"

C17_WitnessNoBackend ==
    pc = "exited" /\ call.raised = "ImportError" /\ args.layout = "sfdp"

(***************************************************************************)
(* A caller of the library loads a graph and then applies the filters to   *)
(* the graph it holds, in any order and with any arguments.                *)
(***************************************************************************)
\* the sources tried: the current schema, edge rows without NULL
\* endpoints and with weight NULL or 5
FilterSourceEdges ==
    {rows \in EdgeResults :
        \A i \in 1..Len(rows) : rows[i][1] # None /\ rows[i][3] \in {None, 5}}

\* load_graph has returned the graph of the rows it read
InitLoadFilters ==
    /\ schema_info \in {v \in SchemaVersions : v["has_depth"]}
    /\ node_rows \in NodeResults(TRUE)
    /\ edge_rows \in FilterSourceEdges
    /\ heap = (1 :> insert_edges(insert_nodes(EmptyGraph, node_rows, 1, TRUE).G,
                                 edge_rows, 1).G)
    /\ cur = 1 /\ call = NoCall
    /\ pc = "load_return" /\ args = NoArgs /\ status = None /\ trace = <<>>
    /\ conn = "closed" /\ closes = 1 /\ exc = ""
    /\ files = [nodes |-> NoFile, edges |-> NoFile]

NextLoadFilters ==
    \/ CallFilterByWeight
    \/ CallRemoveIsolated
    \/ CallExtractSubgraph

SpecLoadFilters == InitLoadFilters /\ [][NextLoadFilters]_vars

\* the graph load_graph made of the rows it read
LoadedGraph ==
    insert_edges(insert_nodes(EmptyGraph, node_rows, 1, schema_info["has_depth"]).G,
                 edge_rows, 1).G

WellFormed(g) ==
    /\ \A e \in EdgeSet(g) : e[1] \in NodeSet(g) /\ e[2] \in NodeSet(g)
    /\ DOMAIN g.attr = NodeSet(g)
    /\ \A i, j \in 1..Len(g.nodes) : g.nodes[i] = g.nodes[j] => i = j

\* C18: after load_graph and any sequence of filter calls that returned,
\* the graph the caller holds has both ends of each edge among its nodes,
\* its nodes and edges are nodes and edges of the loaded graph, and they
\* have the attributes and the weight they have in the loaded graph.
C18_FilteredIsSubgraphOfLoaded ==
    pc = "load_return" =>
        /\ WellFormed(heap[cur])
        /\ NodeSet(heap[cur]) \subseteq NodeSet(LoadedGraph)
        /\ EdgeSet(heap[cur]) \subseteq EdgeSet(LoadedGraph)
        /\ \A n \in NodeSet(heap[cur]) : heap[cur].attr[n] = LoadedGraph.attr[n]
        /\ \A e \in EdgeSet(heap[cur]) : heap[cur].edges[e] = LoadedGraph.edges[e]

C18_Witness ==
    /\ pc = "load_return"
    /\ call.op = "extract_subgraph" /\ call.raised = ""
    /\ call.in_op \in {"filter_by_weight", "remove_isolated"}
    /\ number_of_nodes(heap[cur]) = 2 /\ number_of_edges(heap[cur]) = 1
    /\ number_of_nodes(LoadedGraph) = 3 /\ number_of_edges(LoadedGraph) = 2

C18_WitnessThreeFilters ==
    /\ pc = "load_return"
    /\ call.op = "remove_isolated" /\ call.in_op = "filter_by_weight"
    /\ number_of_nodes(heap[cur]) < number_of_nodes(LoadedGraph)
    /\ number_of_edges(heap[cur]) >= 1

====
